---- MODULE Spec2Model ----
(***************************************************************************)
(* Model of crocoite's IRC bot "chromebot" (src/crocoite/irc.py): the      *)
(* channel membership mirror of ArgparseBot, the privilege guard, the job  *)
(* registry and the archive / status / abort handlers of Chromebot.        *)
(*                                                                         *)
(* The bot runs on one asyncio event loop.  A handler runs without         *)
(* interruption from one await that suspends to the next, so every action  *)
(* below is one such uninterrupted stretch of a handler.                   *)
(***************************************************************************)
EXTENDS Integers, Sequences, FiniteSets, TLC

\* ------------------------------------------------------------------ bounds
\* Number of archive jobs a behaviour may create.
MaxJobs == 2

\* Number of keepalive probes a behaviour answers.
MaxPings == 1

\* processLimit=1 is the default of Chromebot.__init__.
ProcessLimit == 1

\* ------------------------------------------------------- values of the code
None == "None"

\* class Status(IntEnum)
Status == [undefined |-> 0, pending |-> 1, running |-> 2, aborted |-> 3, finished |-> 4]

StatusName(s) ==
    CASE s = 0 -> "undefined"
      [] s = 1 -> "pending"
      [] s = 2 -> "running"
      [] s = 3 -> "aborted"
      [] s = 4 -> "finished"

\* class NickMode(Enum)
NickMode == [operator |-> "@", voice |-> "+"]

\* The two message kinds handleArchive routes.
StatsUuid == "24d92d16-770e-4088-b769-4020e127a7ff"
RStatsUuid == "5b8498e4-868d-413c-a67e-004516b8452c"

\* A JSON object is a function from its keys to its values; {} is EmptyDict.
EmptyDict == [k \in {} |-> 0]

\* dict.get (key, default)
Get(d, k, default) == IF k \in DOMAIN d THEN d[k] ELSE default

\* Lines a worker may write to its standard output: the text of a line is
\* either the encoding of a JSON object (json |-> TRUE, with the object it
\* encodes) or something json.loads rejects (json |-> FALSE).
JsonLine(obj) == [json |-> TRUE, obj |-> obj]
Malformed == [json |-> FALSE, obj |-> EmptyDict]
StatsLine1 == JsonLine([uuid |-> StatsUuid, requests |-> 3, bytesRcv |-> <<1, 512>>])
StatsLine2 == JsonLine([uuid |-> StatsUuid, failed |-> 1])
RStatsLine1 == JsonLine([uuid |-> RStatsUuid, have |-> 1, pending |-> 2])
OtherLine == JsonLine([uuid |-> "other"])
NoKindLine == JsonLine([level |-> 1])
\* The stats lines that report a byte count: the counts of up to three
\* leading digits, each digit 0, 1, a quarter, three quarters or the largest,
\* followed by up to three digits 0 (0 up to 1024^6 - 1024^3).
Digits == {0, 1, 256, 768, 1023}
Leads == {<<0>>}
         \cup {<<d>> : d \in Digits \ {0}}
         \cup {<<d, e>> : d \in Digits \ {0}, e \in Digits}
         \cup {<<d, e, f>> : d \in Digits \ {0}, e \in Digits, f \in Digits}
Zeros == {<<>>, <<0>>, <<0, 0>>, <<0, 0, 0>>}
ByteCounts == {<<0>>} \cup {lead \o z : lead \in Leads \ {<<0>>}, z \in Zeros}
BytesLine(b) == JsonLine([uuid |-> StatsUuid, bytesRcv |-> b])

Lines == {StatsLine1, StatsLine2, RStatsLine1, OtherLine, NoKindLine, Malformed}

\* json.loads (data): the decoded object, or an exception.
json_loads(line) == [raised |-> ~line.json, value |-> line.obj]

Url == "http://example.org"
Nicks == {"alice", "bob"}

\* The configured channel list (ArgparseBot.channels) and the channel names
\* the server may mention.
channels == {"#c"}
channelList == <<"#c">>
AllChannels == {"#c", "#x"}

\* ---------------------------------------------------------- helper functions
\* A byte count is a Python int, which has no width, and prettyBytes divides
\* it by 1024 only: a count is held as its digits in base 1024, the most
\* significant first and not 0 (<<0>> is zero), and the float b of the loop as
\* the digits before and after the point.
Kibi == 1024

\* The int a digit sequence denotes.
RECURSIVE Value(_)
Value(digits) ==
    IF digits = <<>> THEN 0
    ELSE Value(SubSeq(digits, 1, Len(digits) - 1)) * Kibi + digits[Len(digits)]

\* Ten times the fraction 0.frac: the digit before the point (carry) and the
\* digits after it.
RECURSIVE TimesTen(_)
TimesTen(frac) ==
    IF frac = <<>> THEN [carry |-> 0, digits |-> <<>>]
    ELSE LET rest == TimesTen(Tail(frac))
             x == Head(frac) * 10 + rest.carry
         IN [carry |-> x \div Kibi, digits |-> <<x % Kibi>> \o rest.digits]

\* '{:.1f}'.format (b) for b = whole.frac: the number of tenths printed, the
\* exact value rounded to the nearest tenth, a tie to the even one.
FormatTenths(whole, frac) ==
    LET t == TimesTen(frac)
        down == Value(whole) * 10 + t.carry
        r == t.digits
        restZero == \A i \in 2..Len(r) : r[i] = 0
        up == IF r = <<>> \/ 2 * r[1] < Kibi THEN 0
              ELSE IF 2 * r[1] = Kibi /\ restZero THEN down % 2
              ELSE 1
    IN down + up

\* A loop that goes on only while b is more than 1024.
RECURSIVE prettyBytesLoopAbove(_, _, _)
prettyBytesLoopAbove(whole, frac, prefixes) ==
    IF /\ Len(whole) > 1
       /\ ~(whole = <<1, 0>> /\ \A i \in DOMAIN frac : frac[i] = 0)
       /\ Len(prefixes) > 1
    THEN prettyBytesLoopAbove(SubSeq(whole, 1, Len(whole) - 1),
                              <<whole[Len(whole)]>> \o frac, Tail(prefixes))
    ELSE [tenths |-> FormatTenths(whole, frac), unit |-> prefixes[1]]

\* prettyBytes: the while loop over (b, prefixes).  b >= 1024 when more than
\* one digit stands before the point; b /= 1024 moves the point one digit to
\* the left.
RECURSIVE prettyBytesLoop(_, _, _)
prettyBytesLoop(whole, frac, prefixes) ==
    IF Len(whole) > 1 /\ Len(prefixes) > 1
    THEN prettyBytesLoop(SubSeq(whole, 1, Len(whole) - 1),
                         <<whole[Len(whole)]>> \o frac, Tail(prefixes))
    ELSE [tenths |-> FormatTenths(whole, frac), unit |-> prefixes[1]]

\* prettyBytes with the loop that goes on only while b is more than 1024.
prettyBytesAbove(b) == prettyBytesLoopAbove(b, <<>>, <<"B", "KiB", "MiB", "GiB", "TiB">>)

\* prettyBytes: b and the list of prefixes before the loop.
prettyBytes(b) == prettyBytesLoop(b, <<>>, <<"B", "KiB", "MiB", "GiB", "TiB">>)

\* Job.__init__: id is the uuid4 string, here the job's number.
Job(id, url, nick) ==
    [id |-> id, stats |-> EmptyDict, rstats |-> EmptyDict, finished |-> None,
     url |-> url, nick |-> nick, status |-> Status.pending, process |-> None]

\* Job.formatStatus: the fields the format string interpolates.
formatStatus(job) ==
    [url |-> job.url,
     id |-> job.id,
     status |-> StatusName(job.status),
     have |-> Get(job.rstats, "have", 0),
     pending |-> Get(job.rstats, "pending", 0),
     crashed |-> Get(job.stats, "crashed", 0),
     requests |-> Get(job.stats, "requests", 0),
     failed |-> Get(job.stats, "failed", 0),
     received |-> prettyBytes(Get(job.stats, "bytesRcv", <<0>>))]

\* NickMode.fromMode: the dictionary {'v': voice, 'o': operator}; a letter that
\* is not a key raises KeyError.
fromModeKeys == {"v", "o"}
fromMode(mode) == IF mode = "v" THEN NickMode.voice ELSE NickMode.operator

\* Names a NAMES reply may list, with name[0] and name[1:] of each.
RawNames == {"+alice", "@bob", "alice", "bob"}
StrHead(name) ==
    CASE name = "+alice" -> "+"
      [] name = "@bob" -> "@"
      [] name = "alice" -> "a"
      [] name = "bob" -> "b"
StrTail(name) ==
    CASE name = "+alice" -> "alice"
      [] name = "@bob" -> "bob"
      [] name = "alice" -> "lice"
      [] name = "bob" -> "ob"

\* A set object a User's modes attribute refers to: either the one set that
\* is the default value of the modes parameter of User.__init__ (created once,
\* when the def statement runs, and kept in the variable defaultModes), or a
\* set of the user's own.
DefaultSet == [shared |-> TRUE, elems |-> {}]
OwnSet(elems) == [shared |-> FALSE, elems |-> elems]

\* User.__init__ (name, modes)
UserWith(name, modes) == [name |-> name, modes |-> modes]
\* User.__init__ (name): modes is the default object.
User(name) == UserWith(name, DefaultSet)

\* User.fromName: NickMode (name[0]) raises ValueError unless name[0] is the
\* value of a member of NickMode.
fromName(name) ==
    IF StrHead(name) \in {NickMode.operator, NickMode.voice}
    THEN UserWith(StrTail(name), OwnSet({StrHead(name)}))
    ELSE UserWith(name, OwnSet({}))

\* ArgparseBot.parseMode: the loop body, action being the sign in force.
RECURSIVE parseModeLoop(_, _, _)
parseModeLoop(mode, action, ret) ==
    IF mode = <<>> THEN ret
    ELSE IF Head(mode) \in {"+", "-"}
         THEN parseModeLoop(Tail(mode), Head(mode), ret)
         ELSE parseModeLoop(Tail(mode), action, Append(ret, <<action, Head(mode)>>))

parseMode(mode) == parseModeLoop(mode, "+", <<>>)

\* ------------------------------------------------------------------ replies
\* ReplyContext.__call__: the PRIVMSG sent, '<user.name>: <message>' to target.
Reply(target, name, message) == [target |-> target, user |-> name, message |-> message]

NoReply == [target |-> None, user |-> None, message |-> [kind |-> None]]

RefusalMsg == [kind |-> "Sorry, you must have voice to use this command."]
UnknownMsg(id) == [kind |-> "Job is unknown", id |-> id]
NotRunningMsg == [kind |-> "This job is not running."]
QueuedMsg(job, args) ==
    [kind |-> "has been queued as", url |-> args.url, id |-> job.id,
     recursive |-> args.recursive, concurrency |-> args.concurrency]
StatusMsg(job) == [kind |-> "status", text |-> formatStatus(job)]

\* ------------------------------------------------------------------- state
VARIABLES
    users,          \* ArgparseBot.users: channel -> nick -> User
    defaultModes,   \* the content of the default set of User.__init__
    jobs,           \* Chromebot.jobs: the jobs in order of creation, id = index
    processLimit,   \* the value of the semaphore Chromebot.processLimit
    pc,             \* per job, the await its handleArchive call is suspended at
    signalled,      \* jobs whose process has been sent terminate ()
    sent,           \* per job, the replies its handleArchive call has sent
    abortedFrom,    \* per job, the status handleAbort found when it aborted it
    lastReply,      \* the PRIVMSG the latest step sent through a ReplyContext,
                    \* NoReply when it sent none
    link,           \* the connection: "idle" before the first connect, then
                    \* "up", and "lost" after a disconnect
    connectPc,      \* where onConnect is: "idle", "wait" (in asyncio.wait), "done"
    waiters,        \* the events a pending self.wait () of onConnect waits for
    sentCommands,   \* the commands onConnect and onKeepalive have sent, in order
    disconnectPc    \* where onDisconnect is: "idle", or "raised" when its call
                    \* ended in an exception

vars == <<users, defaultModes, jobs, processLimit, pc, signalled, sent,
          abortedFrom, lastReply, link, connectPc, waiters, sentCommands,
          disconnectPc>>

memberVars == <<users, defaultModes>>
connVars == <<link, connectPc, waiters, sentCommands, disconnectPc>>
jobVars == <<jobs, processLimit, pc, signalled, sent, abortedFrom>>

\* The set a User's modes attribute denotes in the current state.
ModesOf(u) == IF u.modes.shared THEN defaultModes ELSE u.modes.elems

\* ------------------------------------------------------- membership events
\* ArgparseBot.onNameReply: dict (map (lambda x: (x.name, x), map (User.fromName,
\* users))); of two entries with one name the later one stays.
namesToUsers(names) ==
    [n \in {fromName(names[i]).name : i \in DOMAIN names} |->
        LET last == CHOOSE i \in DOMAIN names :
                      /\ fromName(names[i]).name = n
                      /\ \A k \in DOMAIN names :
                            fromName(names[k]).name = n => k <= i
        IN fromName(names[last])]

onNameReply(channel, names) ==
    /\ users' = [users EXCEPT ![channel] = namesToUsers(names)]
    /\ lastReply' = NoReply
    /\ UNCHANGED <<defaultModes, jobVars, connVars>>

\* ArgparseBot.onMode, one iteration of the loop over zip (parseMode (modes),
\* params): st is [users |-> self.users[channel], dflt |-> the default set].
onModeStep(st, action, mode, nick) ==
    IF mode \notin fromModeKeys THEN st
    ELSE LET m == fromMode(mode)
             u == Get(st.users, nick, User(nick))
             cur == IF u.modes.shared THEN st.dflt ELSE u.modes.elems
             new == IF action = "+" THEN cur \cup {m} ELSE cur \ {m}
         IN IF action = "-" /\ m \notin cur THEN st
            ELSE IF u.modes.shared THEN [st EXCEPT !.dflt = new]
            ELSE [st EXCEPT !.users[nick].modes.elems = new]

RECURSIVE onModeLoop(_, _, _)
onModeLoop(st, pairs, params) ==
    IF pairs = <<>> \/ params = <<>> THEN st
    ELSE onModeLoop(onModeStep(st, Head(pairs)[1], Head(pairs)[2], Head(params)),
                    Tail(pairs), Tail(params))

onMode(channel, modes, params) ==
    /\ channel \in channels
    /\ LET st == onModeLoop([users |-> users[channel], dflt |-> defaultModes],
                            parseMode(modes), params)
       IN /\ users' = [users EXCEPT ![channel] = st.users]
          /\ defaultModes' = st.dflt
    /\ lastReply' = NoReply
    /\ UNCHANGED <<jobVars, connVars>>

\* ArgparseBot.onPart
onPart(nick, channel) ==
    /\ channel \in channels
    /\ users' = [users EXCEPT ![channel] =
                    [n \in DOMAIN @ \ {nick} |-> @[n]]]
    /\ lastReply' = NoReply
    /\ UNCHANGED <<defaultModes, jobVars, connVars>>

\* ArgparseBot.onJoin
onJoin(nick, channel) ==
    /\ channel \in channels
    /\ users' = [users EXCEPT ![channel] =
                    [n \in DOMAIN @ \cup {nick} |->
                        IF n = nick THEN User(nick) ELSE @[n]]]
    /\ lastReply' = NoReply
    /\ UNCHANGED <<defaultModes, jobVars, connVars>>

\* The one configured channel: the target of the replies of a resumed handler.
HomeChannel == CHOOSE c \in channels : TRUE

\* ------------------------------------------------------------ the guards
\* A guard that lets every user through.
voiceAnyone(user) == TRUE

\* voice: the test of the decorator on the calling user's modes.
voice(user) == ModesOf(user) \cap {NickMode.operator, NickMode.voice} # {}

\* jobExists: self.jobs.get (args.id, None) is a job.
jobExists(id) == id \in DOMAIN jobs

\* -------------------------------------------------------- Chromebot handlers
\* The bookkeeping without the test of line 406.
finishJobAlways(job) == [job EXCEPT !.status = Status.finished, !.finished = "utcnow"]

\* A bookkeeping that gives up the handle of the process that has exited.
finishJobClearsHandle(job) ==
    [job EXCEPT !.status = IF @ = Status.running THEN Status.finished ELSE @,
                !.finished = "utcnow",
                !.process = None]

\* handleArchive, lines 406-409: the bookkeeping after the async with block.
finishJob(job) ==
    [job EXCEPT !.status = IF @ = Status.running THEN Status.finished ELSE @,
                !.finished = "utcnow"]

\* handleArchive, lines 406-413, run on job j whose record is job.
Epilogue(j, job) ==
    /\ jobs' = [jobs EXCEPT ![j] = finishJob(job)]
    /\ sent' = [sent EXCEPT ![j] = Append(@, StatusMsg(finishJob(job)))]
    /\ lastReply' = Reply(HomeChannel, job.nick, StatusMsg(finishJob(job)))
    /\ pc' = [pc EXCEPT ![j] = "done"]

\* An entry that sends the queued reply only once it holds a slot.
archiveEntryReplyLate(id, name, args, free) ==
    LET job == Job(id, args.url, name)
    IN [job |-> job,
        reply |-> QueuedMsg(job, args),
        sent |-> IF free > 0 THEN <<QueuedMsg(job, args)>> ELSE <<>>,
        pc |-> IF free > 0 THEN "spawn" ELSE "acquire",
        free |-> IF free > 0 THEN free - 1 ELSE free]

\* handleArchive from its entry to its first suspension (lines 362-387): the
\* job is created and registered, the queued reply is sent, and the handler
\* enters the async with block; free is the semaphore's value.  With a free
\* slot acquire () returns at once and the handler goes on to start the
\* process; without one it suspends in acquire ().
archiveEntry(id, name, args, free) ==
    LET job == Job(id, args.url, name)
    IN [job |-> job,
        reply |-> QueuedMsg(job, args),
        sent |-> <<QueuedMsg(job, args)>>,
        pc |-> IF free > 0 THEN "spawn" ELSE "acquire",
        free |-> IF free > 0 THEN free - 1 ELSE free]

handleArchive(target, user, args) ==
    /\ Len(jobs) < MaxJobs
    /\ LET e == archiveEntry(Len(jobs) + 1, user.name, args, processLimit)
       IN /\ jobs' = Append(jobs, e.job)
          /\ sent' = Append(sent, e.sent)
          /\ lastReply' = Reply(target, user.name, e.reply)
          /\ pc' = Append(pc, e.pc)
          /\ processLimit' = e.free
    /\ abortedFrom' = Append(abortedFrom, Status.undefined)
    /\ UNCHANGED <<memberVars, connVars, signalled>>

\* A status handler that resets the counters it has reported.
handleStatusResets(target, user, args) ==
    /\ lastReply' = Reply(target, user.name, StatusMsg(jobs[args.id]))
    /\ jobs' = [jobs EXCEPT ![args.id].stats = EmptyDict]
    /\ UNCHANGED <<memberVars, connVars, processLimit, pc, signalled, sent,
                   abortedFrom>>

\* handleStatus
handleStatus(target, user, args) ==
    /\ lastReply' = Reply(target, user.name, StatusMsg(jobs[args.id]))
    /\ UNCHANGED <<memberVars, connVars, jobVars>>

\* An abort that records the time of the transition into Aborted.
abortJobStamps(job) ==
    IF job.status \notin {Status.pending, Status.running} THEN job
    ELSE [job EXCEPT !.status = Status.aborted, !.finished = "utcnow"]

\* handleAbort: the job's record after the handler ran.
abortJob(job) ==
    IF job.status \notin {Status.pending, Status.running} THEN job
    ELSE [job EXCEPT !.status = Status.aborted]

\* An abort that terminates the process of a pending job only.
abortTerminatesPendingOnly(job) ==
    /\ job.status = Status.pending
    /\ job.process = "live"

\* handleAbort: whether the handler calls job.process.terminate ().
abortTerminates(job) ==
    /\ job.status \in {Status.pending, Status.running}
    /\ job.process # None
    /\ job.process = "live"

handleAbort(target, user, args) ==
    LET job == jobs[args.id]
    IN /\ jobs' = [jobs EXCEPT ![args.id] = abortJob(job)]
       /\ signalled' = IF abortTerminates(job) THEN signalled \cup {args.id}
                       ELSE signalled
       /\ abortedFrom' = IF abortJob(job) # job
                         THEN [abortedFrom EXCEPT ![args.id] = job.status]
                         ELSE abortedFrom
       /\ lastReply' = IF abortJob(job) # job THEN NoReply
                       ELSE Reply(target, user.name, NotRunningMsg)
       /\ UNCHANGED <<memberVars, connVars, processLimit, pc, sent>>

\* A reply after which the handler returns: that of a decorator that does not
\* call the wrapped handler, and that of onMessage for a command line the
\* parser rejects.
Refuse(target, user, message) ==
    /\ lastReply' = Reply(target, user.name, message)
    /\ UNCHANGED <<memberVars, jobVars, connVars>>

\* ------------------------------------------------------------- the parser
\* urlsplit (s) of the URL tokens of the model: its scheme and netloc.
Urls == {Url, "https://example.org/a", "ftp://example.org", "example.org", "http:///a"}
urlsplit(s) ==
    CASE s = "http://example.org" -> [scheme |-> "http", netloc |-> "example.org"]
      [] s = "https://example.org/a" -> [scheme |-> "https", netloc |-> "example.org"]
      [] s = "ftp://example.org" -> [scheme |-> "ftp", netloc |-> "example.org"]
      [] s = "example.org" -> [scheme |-> "", netloc |-> ""]
      [] s = "http:///a" -> [scheme |-> "http", netloc |-> ""]

\* A test that accepts every URL with a scheme and a host.
isValidUrlAnyScheme(s) ==
    LET url == urlsplit(s)
    IN url.scheme # "" /\ url.netloc # ""

\* isValidUrl: whether it returns s (TRUE) or raises TypeError (FALSE).
isValidUrl(s) ==
    LET url == urlsplit(s)
    IN url.scheme # "" /\ url.netloc # "" /\ url.scheme \in {"http", "https"}

\* int (token) of the tokens given to --concurrency: the number, or the
\* ValueError int raises.
ConcurrencyTokens == {"1", "4", "5", "0", "x"}
int(token) ==
    CASE token = "1" -> [raised |-> FALSE, value |-> 1]
      [] token = "4" -> [raised |-> FALSE, value |-> 4]
      [] token = "5" -> [raised |-> FALSE, value |-> 5]
      [] token = "0" -> [raised |-> FALSE, value |-> 0]
      [] token = "x" -> [raised |-> TRUE, value |-> 0]

\* getParser: the choices and defaults of the archive sub-parser.
ConcurrencyChoices == 1..4
ConcurrencyDefault == 1
RecursiveChoices == {"0", "1", "prefix"}
RecursiveDefault == "0"
RecursiveTokens == {"1", "prefix", "2"}

\* The command lines of the model, as the tokens message.split (' ')[1:]
\* yields: 'a <url> [-j <token>] [-r <token>]' (an option that is not given is
\* None), 's <id>' and 'r <id>'.
IdArgs == 1..(MaxJobs + 1)
ArchiveCommand(url, j, r) == [sub |-> "a", url |-> url, j |-> j, r |-> r]
JobCommands == [sub : {"s", "r"}, id : IdArgs]
Commands == {ArchiveCommand(Url, None, None)} \cup JobCommands
\* The line that holds the bot's nick only (no token is left) and a line
\* whose first token is no sub-command.
NoSubCommand == [sub |-> None]
UnknownSubCommand == [sub |-> "x"]
AllCommands ==
    {ArchiveCommand(Url, None, None),
     ArchiveCommand("https://example.org/a", "4", "prefix"),
     ArchiveCommand("ftp://example.org", None, None),
     ArchiveCommand("example.org", None, None),
     ArchiveCommand("http:///a", "1", "1"),
     ArchiveCommand(Url, "5", None),
     ArchiveCommand(Url, "0", "prefix"),
     ArchiveCommand(Url, "x", None),
     ArchiveCommand(Url, "4", "2"),
     ArchiveCommand("ftp://example.org", "5", "2")}
    \cup JobCommands \cup {NoSubCommand, UnknownSubCommand}

\* NonExitingArgumentParser.error: the exception (parser, message) it raises;
\* the parser is the sub-parser of the command.
ParseError(sub, argument, problem, value) ==
    [raised |-> TRUE, parser |-> sub,
     message |-> [argument |-> argument, problem |-> problem, value |-> value]]

\* parse_args of the archive sub-parser: the arguments are converted and
\* checked in the order of the tokens, and the first failure is the error.
parseArchive(command) ==
    IF ~isValidUrl(command.url)
    THEN ParseError("a", "URL", "invalid isValidUrl value", command.url)
    ELSE IF command.j # None /\ int(command.j).raised
    THEN ParseError("a", "--concurrency/-j", "invalid int value", command.j)
    ELSE IF command.j # None /\ int(command.j).value \notin ConcurrencyChoices
    THEN ParseError("a", "--concurrency/-j", "invalid choice", command.j)
    ELSE IF command.r # None /\ command.r \notin RecursiveChoices
    THEN ParseError("a", "--recursive/-r", "invalid choice", command.r)
    ELSE [raised |-> FALSE,
          args |-> [func |-> "handleArchive",
                    url |-> command.url,
                    concurrency |-> IF command.j = None THEN ConcurrencyDefault
                                    ELSE int(command.j).value,
                    recursive |-> IF command.r = None THEN RecursiveDefault
                                  ELSE command.r]]

\* self.parser.parse_args (command): the namespace, with the func its
\* sub-parser sets, or the exception of error ().  The sub-parsers are
\* optional: without a token the result is the empty namespace, which has no
\* func; a first token that is no sub-command is an invalid choice of the main
\* parser.
parse_args(command) ==
    CASE command.sub = "a" -> parseArchive(command)
      [] command.sub = "s" ->
           [raised |-> FALSE, args |-> [func |-> "handleStatus", id |-> command.id]]
      [] command.sub = "r" ->
           [raised |-> FALSE, args |-> [func |-> "handleAbort", id |-> command.id]]
      [] command.sub = None ->
           [raised |-> FALSE, args |-> [func |-> None]]
      [] OTHER ->
           ParseError("main", "sub-command", "invalid choice", command.sub)

\* bool (args) of line 281: argparse.Namespace defines neither __bool__ nor
\* __len__, so every namespace is true.
bool(args) == TRUE

\* onMessage, line 282: the reply for a namespace that is false.
SorryMsg(command) == [kind |-> "Sorry, I don't understand", command |-> command]

\* A handler that ends in an exception nothing catches: nothing is sent.
Unhandled ==
    /\ lastReply' = NoReply
    /\ UNCHANGED <<memberVars, jobVars, connVars>>

\* onMessage, line 279: '{} -- {}'.format (e.args[1], e.args[0].format_usage ()).
ErrorMsg(e) == [kind |-> "error", message |-> e.message, usage |-> e.parser]

\* ArgparseBot.onMessage, line 271: the sender's User record, a new one with
\* the default modes when the nick is not in the channel's map.
SenderUser(channel, nick) == Get(users[channel], nick, User(nick))

\* ArgparseBot.onMessage for a message that starts with the bot's nick, whose
\* tokens after the nick are command: the user lookup, the parse with its
\* error reply, the test of the namespace, and the call of args.func through
\* its decorators; reading func of a namespace that has none raises
\* AttributeError out of the handler.
onMessage(nick, target, command) ==
    /\ target \in channels
    /\ LET user == SenderUser(target, nick)
           parsed == parse_args(command)
       IN IF parsed.raised THEN Refuse(target, user, ErrorMsg(parsed))
          ELSE IF ~bool(parsed.args) THEN Refuse(target, user, SorryMsg(command))
          ELSE CASE parsed.args.func = None -> Unhandled
                 [] parsed.args.func = "handleArchive" ->
                      IF voice(user) THEN handleArchive(target, user, parsed.args)
                      ELSE Refuse(target, user, RefusalMsg)
                 [] parsed.args.func = "handleStatus" ->
                      IF jobExists(parsed.args.id)
                      THEN handleStatus(target, user, parsed.args)
                      ELSE Refuse(target, user, UnknownMsg(parsed.args.id))
                 [] parsed.args.func = "handleAbort" ->
                      IF ~voice(user) THEN Refuse(target, user, RefusalMsg)
                      ELSE IF jobExists(parsed.args.id)
                      THEN handleAbort(target, user, parsed.args)
                      ELSE Refuse(target, user, UnknownMsg(parsed.args.id))

\* ------------------------------------------- handleArchive after a suspension
\* A block that is left without giving the slot back.
releaseNothing(free) == free

\* Leaving the async with block: the semaphore's release ().
release(free) == free + 1

\* A resumption that takes the slot for a job that is still Pending only.
AcquireSlotPendingOnly(j) ==
    /\ pc[j] = "acquire"
    /\ processLimit > 0
    /\ jobs[j].status = Status.pending
    /\ processLimit' = processLimit - 1
    /\ pc' = [pc EXCEPT ![j] = "spawn"]
    /\ lastReply' = NoReply
    /\ UNCHANGED <<memberVars, connVars, jobs, sent, signalled, abortedFrom>>

\* Resumed in acquire () (line 381): the slot is taken and the status checked
\* (line 382); an aborted job leaves the block at once.
AcquireSlot(j) ==
    /\ pc[j] = "acquire"
    /\ processLimit > 0
    /\ IF jobs[j].status = Status.pending
       THEN /\ processLimit' = processLimit - 1
            /\ pc' = [pc EXCEPT ![j] = "spawn"]
            /\ lastReply' = NoReply
            /\ UNCHANGED <<jobs, sent>>
       ELSE /\ processLimit' = release(processLimit - 1)
            /\ Epilogue(j, jobs[j])
    /\ UNCHANGED <<memberVars, connVars, signalled, abortedFrom>>

\* create_subprocess_exec returns (line 384): j.process is the new process.
SpawnDone(j) ==
    /\ pc[j] = "spawn"
    /\ jobs' = [jobs EXCEPT ![j].process = "live"]
    /\ pc' = [pc EXCEPT ![j] = "readline"]
    /\ lastReply' = NoReply
    /\ UNCHANGED <<memberVars, connVars, processLimit, signalled, sent, abortedFrom>>

\* create_subprocess_exec raises (the worker cannot be started): the exception
\* leaves the async with block and ends the handler.
SpawnError(j) ==
    /\ pc[j] = "spawn"
    /\ processLimit' = release(processLimit)
    /\ pc' = [pc EXCEPT ![j] = "raised"]
    /\ lastReply' = NoReply
    /\ UNCHANGED <<memberVars, connVars, jobs, signalled, sent, abortedFrom>>

\* A loop body that marks the job running only on a record of a recognized
\* kind.
readLineStartsOnKind(job, line) ==
    LET data == json_loads(line)
        msgid == Get(data.value, "uuid", None)
        started == IF job.status = Status.pending
                   THEN [job EXCEPT !.status = Status.running] ELSE job
    IN IF data.raised THEN [raised |-> TRUE, job |-> job]
       ELSE [raised |-> FALSE,
             job |-> IF msgid = StatsUuid THEN [started EXCEPT !.stats = data.value]
                     ELSE IF msgid = RStatsUuid THEN [started EXCEPT !.rstats = data.value]
                     ELSE job]

\* A loop body that merges a record into the field, as dict.update does,
\* instead of replacing the field.
readLineMerges(job, line) ==
    LET started == IF job.status = Status.pending
                   THEN [job EXCEPT !.status = Status.running] ELSE job
        data == json_loads(line)
        msgid == Get(data.value, "uuid", None)
        update(old) == [k \in DOMAIN old \cup DOMAIN data.value |->
                           IF k \in DOMAIN data.value THEN data.value[k] ELSE old[k]]
    IN IF data.raised THEN [raised |-> TRUE, job |-> started]
       ELSE [raised |-> FALSE,
             job |-> IF msgid = StatsUuid
                     THEN [started EXCEPT !.stats = update(@)]
                     ELSE IF msgid = RStatsUuid
                     THEN [started EXCEPT !.rstats = update(@)]
                     ELSE started]

\* The body of the while loop for one line (lines 393-403): the job's record
\* after it, and whether json.loads raised.
readLine(job, line) ==
    LET started == IF job.status = Status.pending
                   THEN [job EXCEPT !.status = Status.running] ELSE job
        data == json_loads(line)
        msgid == Get(data.value, "uuid", None)
    IN IF data.raised THEN [raised |-> TRUE, job |-> started]
       ELSE [raised |-> FALSE,
             job |-> IF msgid = StatsUuid THEN [started EXCEPT !.stats = data.value]
                     ELSE IF msgid = RStatsUuid THEN [started EXCEPT !.rstats = data.value]
                     ELSE started]

\* readline () returns a line (line 389).
ReadLine(j, line) ==
    /\ pc[j] = "readline"
    /\ LET r == readLine(jobs[j], line)
       IN /\ jobs' = [jobs EXCEPT ![j] = r.job]
          /\ IF r.raised
             THEN /\ processLimit' = release(processLimit)
                  /\ pc' = [pc EXCEPT ![j] = "raised"]
             ELSE UNCHANGED <<processLimit, pc>>
    /\ lastReply' = NoReply
    /\ UNCHANGED <<memberVars, connVars, signalled, sent, abortedFrom>>

\* readline () returns b'' (lines 390-391, 404): the handler awaits
\* j.process.wait (), which returns at once when the exit has been seen.
ReadEof(j) ==
    /\ pc[j] = "readline"
    /\ IF jobs[j].process = "exited"
       THEN /\ processLimit' = release(processLimit)
            /\ Epilogue(j, jobs[j])
       ELSE /\ pc' = [pc EXCEPT ![j] = "wait"]
            /\ lastReply' = NoReply
            /\ UNCHANGED <<jobs, processLimit, sent>>
    /\ UNCHANGED <<memberVars, connVars, signalled, abortedFrom>>

\* j.process.wait () returns (line 404) and the handler runs to its end.
ProcessWait(j) ==
    /\ pc[j] = "wait"
    /\ jobs[j].process = "exited"
    /\ processLimit' = release(processLimit)
    /\ Epilogue(j, jobs[j])
    /\ UNCHANGED <<memberVars, connVars, signalled, abortedFrom>>

\* The worker process exits, by itself or on SIGTERM, and the event loop sets
\* its returncode.
ProcessExit(j) ==
    /\ jobs[j].process = "live"
    /\ jobs' = [jobs EXCEPT ![j].process = "exited"]
    /\ lastReply' = NoReply
    /\ UNCHANGED <<memberVars, connVars, processLimit, pc, signalled, sent, abortedFrom>>

\* ------------------------------------------------------------ the connection
\* The bot's nick, the two signals onConnect waits for and the message of the
\* server's PING.
BotNick == "bot"
GreetingEvents == {"RPL_ENDOFMOTD", "ERR_NOMOTD"}
PingMessages == {"irc.example.org"}

\* self.send (command, ...): the command and its parameter.
NickCmd == [command |-> "NICK", param |-> BotNick]
UserCmd == [command |-> "USER", param |-> BotNick]
JoinCmd(channel) == [command |-> "JOIN", param |-> channel]
PongCmd(message) == [command |-> "PONG", param |-> message]

\* onConnect, lines 212-214: one JOIN per configured channel, in order.
joinAll(chans) == [i \in DOMAIN chans |-> JoinCmd(chans[i])]

\* A resumption that leaves the other waiter pending.
cancelPendingKeeps(pending) == pending

\* onConnect, lines 208-210: every pending waiter is cancelled; what is left.
cancelPending(pending) == {}

\* CLIENT_CONNECT: onConnect from its entry to asyncio.wait (lines 196-206).
onConnect ==
    /\ link = "idle"
    /\ link' = "up"
    /\ sentCommands' = sentCommands \o <<NickCmd, UserCmd>>
    /\ waiters' = GreetingEvents
    /\ connectPc' = "wait"
    /\ lastReply' = NoReply
    /\ UNCHANGED <<memberVars, jobVars, disconnectPc>>

\* The server sends one of the two signals: asyncio.wait returns with it done
\* and onConnect runs to its end (lines 208-214).
onConnectResume(event) ==
    /\ link = "up"
    /\ connectPc = "wait"
    /\ event \in waiters
    /\ waiters' = cancelPending(waiters \ {event})
    /\ sentCommands' = sentCommands \o joinAll(channelList)
    /\ connectPc' = "done"
    /\ lastReply' = NoReply
    /\ UNCHANGED <<memberVars, jobVars, link, disconnectPc>>

\* The commands of one name among those sent.
SentOf(name) == {i \in DOMAIN sentCommands : sentCommands[i].command = name}

\* PING: onKeepalive.
onKeepalive(message) ==
    /\ link = "up"
    /\ Cardinality(SentOf("PONG")) < MaxPings
    /\ sentCommands' = Append(sentCommands, PongCmd(message))
    /\ lastReply' = NoReply
    /\ UNCHANGED <<memberVars, jobVars, link, connectPc, waiters, disconnectPc>>

\* CLIENT_DISCONNECT: the connection is lost and onDisconnect is called.  The
\* method is defined without self (line 287), so the call of the bound method
\* raises TypeError before its body runs: no sleep, no connect ().
onDisconnect ==
    /\ link = "up"
    /\ link' = "lost"
    /\ disconnectPc' = "raised"
    /\ lastReply' = NoReply
    /\ UNCHANGED <<memberVars, jobVars, connectPc, waiters, sentCommands>>

\* The bot is connected and has joined its channels.
Joined ==
    /\ link = "up"
    /\ connectPc = "done"
    /\ waiters = {}
    /\ sentCommands = <<NickCmd, UserCmd>> \o joinAll(channelList)
    /\ disconnectPc = "idle"

\* ------------------------------------------------------------ specification
\* What the server sends in the membership events of the model.
NamesLists == {<<"+alice", "bob">>, <<"@bob">>}
ModeStrings == {<<"+", "v">>, <<"-", "v">>, <<"+", "o">>, <<"+", "b">>,
                <<"+", "v", "-", "o">>}
ParamLists == {<<n>> : n \in Nicks} \cup {<<"alice", "bob">>}

\* The state after Chromebot.__init__.
InitProtocol ==
    /\ users = [c \in AllChannels |-> EmptyDict]
    /\ defaultModes = {}
    /\ jobs = <<>>
    /\ processLimit = ProcessLimit
    /\ pc = <<>>
    /\ signalled = {}
    /\ sent = <<>>
    /\ abortedFrom = <<>>
    /\ lastReply = NoReply
    /\ link = "idle"
    /\ connectPc = "idle"
    /\ waiters = {}
    /\ sentCommands = <<>>
    /\ disconnectPc = "idle"

\* The connection from the first connect on: registration, greeting, join,
\* the NAMES reply of the channel, keepalive, the command lines of the
\* channel's users once the bot has joined, and the disconnect.
NextProtocol ==
    \/ onConnect
    \/ \E event \in GreetingEvents : onConnectResume(event)
    \/ \E message \in PingMessages : onKeepalive(message)
    \/ onDisconnect
    \/ link = "up" /\ connectPc = "done"
          /\ \E names \in NamesLists : onNameReply(HomeChannel, names)
    \/ link = "up" /\ connectPc = "done"
          /\ \E n \in Nicks, c \in AllChannels, command \in AllCommands :
                onMessage(n, c, command)

SpecProtocol == InitProtocol /\ [][NextProtocol]_vars

\* The state once the bot has joined its channel, before the NAMES reply.
InitSession ==
    /\ users = [c \in AllChannels |-> EmptyDict]
    /\ defaultModes = {}
    /\ jobs = <<>>
    /\ processLimit = ProcessLimit
    /\ pc = <<>>
    /\ signalled = {}
    /\ sent = <<>>
    /\ abortedFrom = <<>>
    /\ lastReply = NoReply
    /\ Joined

\* The protocol session: the membership events and the commands, whose
\* handlers run to their first suspension.
NextSession ==
    \/ \E c \in AllChannels, names \in NamesLists : onNameReply(c, names)
    \/ \E c \in AllChannels, m \in ModeStrings, ps \in ParamLists : onMode(c, m, ps)
    \/ \E n \in Nicks, c \in AllChannels : onPart(n, c)
    \/ \E n \in Nicks, c \in AllChannels : onJoin(n, c)
    \/ \E n \in Nicks, c \in AllChannels, command \in Commands :
          onMessage(n, c, command)

SpecSession == InitSession /\ [][NextSession]_vars

\* The state once the bot has joined its channel and the server has sent the
\* NAMES reply "+alice bob": alice has voice, bob has no privilege.
Init ==
    /\ users = [c \in AllChannels |->
                  IF c \in channels THEN namesToUsers(<<"+alice", "bob">>)
                  ELSE EmptyDict]
    /\ defaultModes = {}
    /\ jobs = <<>>
    /\ processLimit = ProcessLimit
    /\ pc = <<>>
    /\ signalled = {}
    /\ sent = <<>>
    /\ abortedFrom = <<>>
    /\ lastReply = NoReply
    /\ Joined

\* The orchestrator: the commands of the channel's users, the resumptions of
\* the archive handlers and the exits of the worker processes.
Next ==
    \/ \E n \in Nicks, c \in AllChannels, command \in Commands :
          onMessage(n, c, command)
    \/ \E j \in DOMAIN jobs : AcquireSlot(j)
    \/ \E j \in DOMAIN jobs : SpawnDone(j)
    \/ \E j \in DOMAIN jobs : SpawnError(j)
    \/ \E j \in DOMAIN jobs, line \in Lines : ReadLine(j, line)
    \/ \E j \in DOMAIN jobs : ReadEof(j)
    \/ \E j \in DOMAIN jobs : ProcessWait(j)
    \/ \E j \in DOMAIN jobs : ProcessExit(j)

Spec == Init /\ [][Next]_vars

\* The orchestrator under fair scheduling: the event loop resumes a handler
\* whose await can return (a free slot, the end of create_subprocess_exec, the
\* exit of the process), and every worker that was started closes its output
\* and exits.
Fairness ==
    \A j \in 1..MaxJobs :
        /\ WF_vars(j \in DOMAIN jobs /\ AcquireSlot(j))
        /\ WF_vars(j \in DOMAIN jobs /\ (SpawnDone(j) \/ SpawnError(j)))
        /\ WF_vars(j \in DOMAIN jobs /\ ReadEof(j))
        /\ WF_vars(j \in DOMAIN jobs /\ ProcessWait(j))
        /\ WF_vars(j \in DOMAIN jobs /\ ProcessExit(j))

SpecFair == Init /\ [][Next]_vars /\ Fairness

\* One job whose worker reports byte counts, and the status commands that
\* print them.
NextBytes ==
    \/ Len(jobs) = 0 /\ onMessage("alice", HomeChannel, ArchiveCommand(Url, None, None))
    \/ \E n \in Nicks : onMessage(n, HomeChannel, [sub |-> "s", id |-> 1])
    \/ \E j \in DOMAIN jobs : SpawnDone(j)
    \/ \E j \in DOMAIN jobs, b \in ByteCounts : ReadLine(j, BytesLine(b))
    \/ \E j \in DOMAIN jobs : ReadEof(j)
    \/ \E j \in DOMAIN jobs : ProcessWait(j)
    \/ \E j \in DOMAIN jobs : ProcessExit(j)

SpecBytes == Init /\ [][NextBytes]_vars

\* ------------------------------------------------------------------ claims
Range(seq) == {seq[i] : i \in DOMAIN seq}

\* The sender's privilege set holds neither operator nor voice.
Unprivileged(channel, nick) ==
    ModesOf(SenderUser(channel, nick)) \cap {NickMode.operator, NickMode.voice} = {}

\* The jobs that are Running and whose worker process has not exited.
RunningLive ==
    {j \in DOMAIN jobs : jobs[j].status = Status.running /\ jobs[j].process = "live"}

\* C1: the number of jobs that are Running and whose worker process has not
\* exited never exceeds the process limit.
C1_RunningLiveAtMostLimit == Cardinality(RunningLive) <= ProcessLimit

\* The moves of the state machine: none out of Finished or Aborted.
StatusMove(a, b) ==
    \/ a = b
    \/ a = Status.pending /\ b \in {Status.running, Status.aborted}
    \/ a = Status.running /\ b \in {Status.finished, Status.aborted}

\* C2: a job's status only moves Pending -> Running -> {Finished, Aborted} or
\* Pending -> Aborted; once Finished or Aborted it never changes.
C2_StatusMonotonic ==
    [][\A j \in DOMAIN jobs : StatusMove(jobs[j].status, jobs'[j].status)]_vars

\* A job aborted while Pending whose handler read a stats line afterwards and
\* ran to its end, next to a job that finished.
C2_Witness ==
    \E j, k \in DOMAIN jobs :
        /\ abortedFrom[j] = Status.pending
        /\ jobs[j].stats # EmptyDict
        /\ pc[j] = "done"
        /\ jobs[j].status = Status.aborted
        /\ jobs[k].status = Status.finished

\* C3: once an abort has been accepted for a Pending job, the job's status is
\* Aborted and no worker process is spawned for it.
C3_AbortPendingNeverSpawns ==
    [][\A j \in DOMAIN jobs :
          abortedFrom[j] = Status.pending =>
              /\ jobs'[j].status = Status.aborted
              /\ jobs[j].process = None => jobs'[j].process = None]_vars

\* C4: a job aborted while Running stays Aborted, never Finished, and its
\* worker process, unless it has exited, has been sent a termination request.
C4_AbortRunning ==
    \A j \in DOMAIN jobs :
        abortedFrom[j] = Status.running =>
            /\ jobs[j].status = Status.aborted
            /\ jobs[j].process = "live" => j \in signalled

\* A job aborted while Running, with the termination request sent, whose
\* handler has seen the exit and ended.
C4_Witness ==
    \E j \in DOMAIN jobs :
        /\ abortedFrom[j] = Status.running
        /\ j \in signalled
        /\ pc[j] = "done"
        /\ jobs[j].finished # None

\* C5: an Aborted job has no live worker process that has not been sent a
\* termination request.
C5_NoLeakedProcess ==
    \A j \in DOMAIN jobs :
        jobs[j].status = Status.aborted /\ jobs[j].process = "live" => j \in signalled

\* C6: a job that spawned a worker has left the concurrency gate only if the
\* worker process has exited.
C6_ReleaseAfterExit ==
    \A j \in DOMAIN jobs :
        jobs[j].process # None /\ pc[j] \in {"done", "raised"} =>
            jobs[j].process = "exited"

\* The lines that are malformed or carry no recognized kind.
IgnoredLines == {Malformed, OtherLine, NoKindLine}

\* C7: a malformed line, or one of an unrecognized kind, changes neither stats
\* nor rstats and leaves the handler reading the next line.
C7_BadLineIgnored ==
    [][\A j \in DOMAIN jobs, line \in IgnoredLines :
          ReadLine(j, line) =>
              /\ jobs'[j].stats = jobs[j].stats
              /\ jobs'[j].rstats = jobs[j].rstats
              /\ pc'[j] = "readline"]_vars

\* C8: for a sender with neither operator nor voice, an archive command
\* creates no job and takes no slot, an abort command leaves the jobs and
\* their processes as they are, both are answered with the refusal, and a
\* status command for a known job is answered with its formatted status.
C8_UnprivilegedRefused ==
    [][\A n \in Nicks, c \in channels, command \in Commands :
          Unprivileged(c, n) /\ onMessage(n, c, command) =>
              LET args == parse_args(command).args
              IN CASE args.func = "handleArchive" ->
                        /\ UNCHANGED <<jobs, processLimit, pc>>
                        /\ lastReply' = Reply(c, n, RefusalMsg)
                   [] args.func = "handleAbort" ->
                        /\ UNCHANGED <<jobs, signalled, pc>>
                        /\ lastReply' = Reply(c, n, RefusalMsg)
                   [] args.func = "handleStatus" ->
                        args.id \in DOMAIN jobs =>
                            lastReply' = Reply(c, n, StatusMsg(jobs[args.id]))]_vars

\* The refusal has been sent to bob, who holds no privilege, while a job is
\* Running with a live process.
C8_Witness ==
    /\ Unprivileged(HomeChannel, "bob")
    /\ lastReply = Reply(HomeChannel, "bob", RefusalMsg)
    /\ \E j \in DOMAIN jobs : jobs[j].status = Status.running /\ jobs[j].process = "live"

\* C9: the record a join creates carries no privilege flag, and a privilege
\* change does not alter whether a nick it does not name passes the voice
\* check.
C9_PrivilegesPerNick ==
    [][/\ \A n \in Nicks, c \in channels :
            onJoin(n, c) => ModesOf(SenderUser(c, n))' = {}
       /\ \A c \in channels, m \in ModeStrings, ps \in ParamLists :
            onMode(c, m, ps) =>
                \A n \in Nicks \ Range(ps) :
                    voice(SenderUser(c, n))' = voice(SenderUser(c, n))]_vars

\* C10: every registered job has had its queued reply sent, first of all its
\* handler's replies, and a job that waits for a slot and has not been aborted
\* is Pending and reported as pending.
C10_QueuedBeforeSlot ==
    \A j \in DOMAIN jobs :
        /\ sent[j] # <<>>
        /\ sent[j][1].kind = "has been queued as" /\ sent[j][1].id = jobs[j].id
        /\ pc[j] = "acquire" /\ abortedFrom[j] = Status.undefined =>
              /\ jobs[j].status = Status.pending
              /\ formatStatus(jobs[j]).status = "pending"

\* A job waits for a slot, Pending, its queued reply sent.
C10_Witness ==
    \E j \in DOMAIN jobs :
        /\ pc[j] = "acquire"
        /\ jobs[j].status = Status.pending
        /\ Len(sent[j]) = 1

\* C11 as stated: a job turns from Pending to Running only in a step that
\* reads a record of one of the two recognized kinds.
C11_RunningOnRecognizedKind ==
    [][\A j \in DOMAIN jobs :
          jobs[j].status = Status.pending /\ jobs'[j].status = Status.running =>
              \E line \in Lines \ IgnoredLines : ReadLine(j, line)]_vars

\* C11: a job turns from Pending to Running exactly when its handler reads the
\* first line of the worker's output, whatever the line holds: every line read
\* while Pending makes it Running, and nothing else does.
C11_RunningOnFirstLine ==
    [][\A j \in DOMAIN jobs :
          /\ \A line \in Lines :
                ReadLine(j, line) /\ jobs[j].status = Status.pending =>
                    jobs'[j].status = Status.running
          /\ jobs[j].status = Status.pending /\ jobs'[j].status = Status.running =>
                \E line \in Lines : ReadLine(j, line)]_vars

\* A job is Running, its handler reading, and no record of a recognized kind
\* has been stored: the line that started it was of another kind.
C11_Witness ==
    \E j \in DOMAIN jobs :
        /\ jobs[j].status = Status.running
        /\ pc[j] = "readline"
        /\ jobs[j].stats = EmptyDict
        /\ jobs[j].rstats = EmptyDict

\* C12: a job that was not aborted, whose worker process has exited and whose
\* handler has run to its end, is Finished, has finishedAt set and has had its
\* final status reply, which says finished, sent.
C12_ExitedJobFinished ==
    \A j \in DOMAIN jobs :
        pc[j] = "done" /\ jobs[j].process = "exited"
                       /\ abortedFrom[j] = Status.undefined =>
            /\ jobs[j].status = Status.finished
            /\ jobs[j].finished # None
            /\ Len(sent[j]) = 2
            /\ sent[j][2] = StatusMsg(jobs[j])

\* The lines of each recognized kind.
StatsLines == {line \in Lines : line.json /\ Get(line.obj, "uuid", None) = StatsUuid}
RStatsLines == {line \in Lines : line.json /\ Get(line.obj, "uuid", None) = RStatsUuid}

C18_FinishedAtFollowsStatus ==
    \A j \in DOMAIN jobs :
        /\ jobs[j].status \in {Status.pending, Status.running} =>
              jobs[j].finished = None
        /\ jobs[j].status \in {Status.finished, Status.aborted} =>
              jobs[j].finished # None

\* C18: finishedAt is set exactly when the job's handler has run to its end,
\* where it also sends its one final reply: it is unset while the job is
\* Running, set when it is Finished, and an Aborted job's is unset until its
\* handler ends.
C18_FinishedAtHandlerEnd ==
    \A j \in DOMAIN jobs :
        /\ jobs[j].finished # None <=> pc[j] = "done"
        /\ pc[j] = "done" <=> Len(sent[j]) = 2
        /\ jobs[j].status = Status.running => jobs[j].finished = None
        /\ jobs[j].status = Status.finished => jobs[j].finished # None

\* A job aborted while Running whose worker has not yet been waited for has
\* no finishedAt; another job's handler has ended, with finishedAt set.
C18_Witness ==
    /\ \E j \in DOMAIN jobs :
          /\ jobs[j].status = Status.aborted
          /\ abortedFrom[j] = Status.running
          /\ jobs[j].finished = None
    /\ \E j \in DOMAIN jobs :
          /\ jobs[j].status = Status.finished
          /\ jobs[j].finished # None

\* C19 as stated: a job holds a process handle only while it is Running.
C19_HandleOnlyWhileRunning ==
    \A j \in DOMAIN jobs :
        jobs[j].process # None => jobs[j].status = Status.running

\* C19: a job holds no process handle until its worker has been started and
\* holds one from then on, while still Pending and after the process has
\* exited: a Running or Finished job, and a job aborted while Running, holds a
\* handle, and that of a Finished job is of a process that has exited.
C19_HandleKept ==
    \A j \in DOMAIN jobs :
        /\ pc[j] \in {"acquire", "spawn"} => jobs[j].process = None
        /\ pc[j] \in {"readline", "wait"} => jobs[j].process # None
        /\ jobs[j].status \in {Status.running, Status.finished} =>
              jobs[j].process # None
        /\ abortedFrom[j] = Status.running => jobs[j].process # None
        /\ jobs[j].status = Status.finished => jobs[j].process = "exited"

\* A Finished job holds the handle of its exited process, and a Pending job
\* whose worker has written nothing yet holds the handle of a live one.
C19_Witness ==
    /\ \E j \in DOMAIN jobs :
          /\ jobs[j].status = Status.finished
          /\ pc[j] = "done"
          /\ jobs[j].process = "exited"
    /\ \E j \in DOMAIN jobs :
          /\ jobs[j].status = Status.pending
          /\ jobs[j].process = "live"

\* C20: the membership state holds no entry for a channel that is not
\* configured.
C20_NoEntryForOtherChannels ==
    \A c \in AllChannels \ channels : users[c] = EmptyDict

\* A command line is one for a status report.
IsStatus(command) == command.sub = "s"

\* C16: a status command changes neither the registry, nor a field of a job,
\* nor anything else the bot holds; for an unknown id the reply says so and
\* for a known id it is the job's formatted status.
C16_StatusReadOnly ==
    [][\A n \in Nicks, c \in channels, command \in Commands :
          IsStatus(command) /\ onMessage(n, c, command) =>
              /\ UNCHANGED <<jobVars, memberVars, connVars>>
              /\ lastReply' = IF command.id \in DOMAIN jobs
                               THEN Reply(c, n, StatusMsg(jobs[command.id]))
                               ELSE Reply(c, n, UnknownMsg(command.id))]_vars

\* The status of a Running job with its counters has been reported to bob,
\* who holds no privilege.
C16_Witness ==
    /\ lastReply.user = "bob"
    /\ lastReply.message.kind = "status"
    /\ lastReply.message.text.status = "running"
    /\ lastReply.message.text.requests = 3
    /\ \E j \in DOMAIN jobs : jobs[j].status = Status.running /\ pc[j] = "readline"

\* An archive command line the parser must reject: its URL is not an absolute
\* http or https URL, its concurrency is not a number of 1..4, or its recursion
\* token is none of 0, 1, prefix.
Rejected(command) ==
    /\ command.sub = "a"
    /\ \/ command.url \notin {"http://example.org", "https://example.org/a"}
       \/ command.j \notin {None, "1", "4"}
       \/ command.r \notin {None, "1", "prefix"}

\* C17: a rejected archive command is answered with the parser's error and
\* the usage of the archive sub-parser; no job is registered, no slot taken
\* and no handler started, and the handler returns normally, so that the next
\* command is handled.
C17_RejectedArchive ==
    [][\A n \in Nicks, c \in channels, command \in AllCommands :
          Rejected(command) /\ onMessage(n, c, command) =>
              /\ UNCHANGED <<jobVars, memberVars, connVars>>
              /\ lastReply'.target = c /\ lastReply'.user = n
              /\ lastReply'.message.kind = "error"
              /\ lastReply'.message.usage = "a"]_vars

\* alice, who has voice, has been sent the error for a URL of another scheme
\* while a job she queued before is registered.
C17_Witness ==
    /\ lastReply.user = "alice"
    /\ lastReply.message.kind = "error"
    /\ lastReply.message.message.value = "ftp://example.org"
    /\ voice(SenderUser(HomeChannel, "alice"))
    /\ Len(jobs) = 1

\* C14: after a disconnect a reconnect is under way: onDisconnect sleeps for
\* the backoff or is connecting.
C14_ReconnectAfterDisconnect ==
    link = "lost" => disconnectPc \in {"sleep", "connect"}

\* C15: NICK and USER are the first commands of a connection; while
\* onConnect waits for the greeting no JOIN has been sent and both waiters
\* are pending; once a signal has arrived no waiter is pending and exactly
\* one JOIN has been sent for each configured channel and none for another.
C15_JoinAfterGreeting ==
    /\ link # "idle" =>
          /\ Len(sentCommands) >= 2
          /\ sentCommands[1] = NickCmd
          /\ sentCommands[2] = UserCmd
    /\ connectPc # "done" => SentOf("JOIN") = {}
    /\ connectPc = "wait" => waiters = GreetingEvents
    /\ connectPc = "done" =>
          /\ waiters = {}
          /\ \A c \in channels :
                Cardinality({i \in SentOf("JOIN") : sentCommands[i].param = c}) = 1
          /\ \A i \in SentOf("JOIN") : sentCommands[i].param \in channels

\* The bot has joined after a keepalive probe was answered during the wait
\* for the greeting.
C15_Witness ==
    /\ connectPc = "done"
    /\ sentCommands = <<NickCmd, UserCmd, PongCmd("irc.example.org"), JoinCmd("#c")>>

\* The privilege set the toggles of a notification yield for nick n from the
\* set cur: the i-th toggle counts when the i-th target name is n and its
\* letter is o or v.
RECURSIVE ToggledModes(_, _, _, _)
ToggledModes(cur, toggles, names, n) ==
    IF toggles = <<>> \/ names = <<>> THEN cur
    ELSE LET action == Head(toggles)[1]
             letter == Head(toggles)[2]
             flag == IF letter = "o" THEN NickMode.operator ELSE NickMode.voice
             next == IF Head(names) # n \/ letter \notin {"o", "v"} THEN cur
                     ELSE IF action = "+" THEN cur \cup {flag}
                     ELSE cur \ {flag}
         IN ToggledModes(next, Tail(toggles), Tail(names), n)

\* C21: a privilege change for a configured channel gives every nick the
\* privilege set its own toggles yield, the i-th toggle going to the i-th
\* target name; a nick that is not named keeps its set.
C21_TogglesPositional ==
    [][\A c \in channels, m \in ModeStrings, ps \in ParamLists :
          onMode(c, m, ps) =>
              \A n \in Nicks :
                  ModesOf(SenderUser(c, n))' =
                      ToggledModes(ModesOf(SenderUser(c, n)), parseMode(m), ps, n)]_vars

\* The archive handlers inside the concurrency gate: between acquire () and
\* the end of the async with block.
InsideGate == {j \in DOMAIN jobs : pc[j] \in {"spawn", "readline", "wait"}}

\* C24: the handlers inside the gate and the free slots add up to the limit,
\* and at most as many handlers as the limit are inside.
C24_SlotsConserved ==
    /\ Cardinality(InsideGate) + processLimit = ProcessLimit
    /\ Cardinality(InsideGate) <= ProcessLimit
    /\ processLimit >= 0

\* One handler has left the gate through the exception of a line it could
\* not decode, and another one is inside, holding the slot.
C24_Witness ==
    /\ \E j \in DOMAIN jobs : pc[j] = "raised" /\ jobs[j].status = Status.running
    /\ \E j \in DOMAIN jobs : pc[j] = "readline"
    /\ processLimit = 0

\* C25: once a job's handler has sent its final reply, no step changes the
\* job's status, stats, rstats or finishedAt.
C25_FinalIsFinal ==
    [][\A j \in DOMAIN jobs :
          pc[j] = "done" =>
              /\ jobs'[j].status = jobs[j].status
              /\ jobs'[j].stats = jobs[j].stats
              /\ jobs'[j].rstats = jobs[j].rstats
              /\ jobs'[j].finished = jobs[j].finished]_vars

\* C22: a line without a sub-command, or with a first token that is no
\* sub-command, is answered with the could-not-understand reply or with a
\* parse error and its usage, and changes nothing else.
C22_NoHandlerAnswered ==
    [][\A n \in Nicks, c \in channels,
          command \in {NoSubCommand, UnknownSubCommand} :
          onMessage(n, c, command) =>
              /\ UNCHANGED <<jobVars, memberVars, connVars>>
              /\ lastReply'.target = c /\ lastReply'.user = n
              /\ lastReply'.message.kind \in {"error", "Sorry, I don't understand"}]_vars

\* a < b for two byte counts.
RECURSIVE LessDigits(_, _)
LessDigits(a, b) ==
    \/ Len(a) < Len(b)
    \/ /\ Len(a) = Len(b) /\ a # <<>>
       /\ \/ Head(a) < Head(b)
          \/ Head(a) = Head(b) /\ LessDigits(Tail(a), Tail(b))

\* 1024 to the power of k, as a byte count.
PowerOfKibi(k) == <<1>> \o [i \in 1..k |-> 0]

\* The index of the unit the thresholds give a byte count.
UnitIndex(b) ==
    IF LessDigits(b, PowerOfKibi(1)) THEN 0
    ELSE IF LessDigits(b, PowerOfKibi(2)) THEN 1
    ELSE IF LessDigits(b, PowerOfKibi(3)) THEN 2
    ELSE IF LessDigits(b, PowerOfKibi(4)) THEN 3
    ELSE 4

\* The printed tenths are the nearest to b / 1024^k: with w the digits of b
\* before the last k and f the first two of the last k, ten times the
\* fraction f / 1024^2 is within one half of tenths - 10 w.
NearestTenths(b, k, tenths) ==
    LET w == Value(SubSeq(b, 1, Len(b) - k))
        f1 == IF k >= 1 THEN b[Len(b) - k + 1] ELSE 0
        f2 == IF k >= 2 THEN b[Len(b) - k + 2] ELSE 0
        f == f1 * Kibi + f2
        d == 20 * f - 2 * Kibi * Kibi * (tenths - 10 * w)
    IN /\ tenths - 10 * w \in 0..10
       /\ d <= Kibi * Kibi /\ -d <= Kibi * Kibi

\* C23: the byte count a status reply prints carries the unit the
\* thresholds 1024, 1024^2, 1024^3, 1024^4 give it (B, KiB, MiB, GiB, and TiB
\* from 1024^4 on), and its magnitude is the count divided by 1024 to the
\* power of the unit's index, to the nearest tenth.
C23_UnitByThreshold ==
    lastReply.message.kind = "status" =>
        LET job == jobs[lastReply.message.text.id]
            b == Get(job.stats, "bytesRcv", <<0>>)
            printed == lastReply.message.text.received
        IN /\ printed.unit = <<"B", "KiB", "MiB", "GiB", "TiB">>[UnitIndex(b) + 1]
           /\ NearestTenths(b, UnitIndex(b), printed.tenths)

\* A status reply has printed 1024^5 + 1024^4 / 4 bytes as 1024.2 TiB (the
\* tie 1024.25 goes to the even tenth).
C23_Witness ==
    /\ lastReply.message.kind = "status"
    /\ Get(jobs[1].stats, "bytesRcv", <<0>>) = <<1, 0, 256, 0, 0, 0>>
    /\ lastReply.message.text.received = [tenths |-> 10242, unit |-> "TiB"]

\* C26: under fair scheduling, with workers that close their output and
\* exit, every job that waits for a slot gets past acquire ().
C26_WaitingAcquires ==
    \A j \in 1..MaxJobs :
        (j \in DOMAIN jobs /\ pc[j] = "acquire") ~>
            (j \in DOMAIN jobs /\ pc[j] # "acquire")

\* A job that was aborted while it waited for a slot has taken the slot, has
\* given it back without starting a worker, and its handler has ended.
C26_Witness ==
    \E j \in DOMAIN jobs :
        /\ pc[j] = "done"
        /\ abortedFrom[j] = Status.pending
        /\ jobs[j].process = None
        /\ Len(sent[j]) = 2

====
